---- MODULE Spec2Model ----
(***************************************************************************)
(* A model of dlisio's record stream (lib/src/io.cpp) and of the python    *)
(* binding's batch helpers (python/dlisio/ext/core.cpp).                   *)
(*                                                                         *)
(* The file is a sequence of octets.  dl::stream keeps an index (tells,    *)
(* residuals) installed by reindex, and stream::at reassembles one logical *)
(* record from its segments.  stream::at is modelled one program point at  *)
(* a time: pc = "lrsh" is the head of the inner while loop (io.cpp:294),   *)
(* pc = "body" the point after the length check (io.cpp:343), pc = "vrl"   *)
(* the point after the inner loop (io.cpp:403).                            *)
(*                                                                         *)
(* Beside the stream stand the functions that locate the storage unit      *)
(* label and the first visible record (findsul, findvrl: SpecLocate), the  *)
(* indexer findoffsets, one turn of its loop at a time (SpecIndex), and    *)
(* the command-line program of bin/dlisio.cpp (SpecCli).  SpecShort runs   *)
(* the stream on files whose segment lengths are less than a header, and   *)
(* SpecReuse adds stream.get and at( i, rec ) on a record that is used     *)
(* again, as in the loop of read_fdata.                                    *)
(***************************************************************************)
EXTENDS Integers, Sequences, FiniteSets, TLC

\* ---------------------------------------------------------------- octets

\* header sizes, dlisio.h
DLIS_LRSH_SIZE == 4
DLIS_VRL_SIZE == 4

\* segment attribute bits, dlisio.h
DLIS_SEGATTR_EXFMTLR == 128
DLIS_SEGATTR_PREDSEG == 64
DLIS_SEGATTR_SUCCSEG == 32
DLIS_SEGATTR_ENCRYPT == 16
DLIS_SEGATTR_ENCRPKT == 8
DLIS_SEGATTR_CHCKSUM == 4
DLIS_SEGATTR_TRAILEN == 2
DLIS_SEGATTR_PADDING == 1

\* bit test on an octet: (byte & mask) != 0 for a one-bit mask
HasBit(byte, mask) == (byte \div mask) % 2 = 1

\* byte & (a | b) for two distinct one-bit masks a, b
MaskBits(byte, a, b) ==
    (IF HasBit(byte, a) THEN a ELSE 0) + (IF HasBit(byte, b) THEN b ELSE 0)

\* dlis_unorm: big-endian unsigned 16 bit
Unorm(hi, lo) == 256 * hi + lo

\* dlis_ushort: one unsigned octet
Ushort(b) == b

\* dlis_lrsh: (len, attrs, type) of a 4-byte segment header; never fails
Lrsh(buf) == [len |-> Unorm(buf[1], buf[2]), attrs |-> buf[3],
              type |-> buf[4], err |-> FALSE]

\* dlis_vrl: (len, version) of a 4-byte visible record header; reports an
\* unexpected value when byte 2 is not 0xFF, and leaves the version to its
\* caller
Vrl(buf) == [len |-> Unorm(buf[1], buf[2]), version |-> buf[4],
             err |-> (buf[3] # 255)]

\* dlis_segment_attributes: the eight flags of an attribute octet
SegmentAttributes(attrs) ==
    [explicit_formatting   |-> HasBit(attrs, DLIS_SEGATTR_EXFMTLR),
     has_predecessor       |-> HasBit(attrs, DLIS_SEGATTR_PREDSEG),
     has_successor         |-> HasBit(attrs, DLIS_SEGATTR_SUCCSEG),
     is_encrypted          |-> HasBit(attrs, DLIS_SEGATTR_ENCRYPT),
     has_encryption_packet |-> HasBit(attrs, DLIS_SEGATTR_ENCRPKT),
     has_checksum          |-> HasBit(attrs, DLIS_SEGATTR_CHCKSUM),
     has_trailing_length   |-> HasBit(attrs, DLIS_SEGATTR_TRAILEN),
     has_padding           |-> HasBit(attrs, DLIS_SEGATTR_PADDING)]

\* ---------------------------------------------------------------- files

\* the octets of a visible record header
VrlBytes(len, version) == <<len \div 256, len % 256, 255, version>>

\* the body of the k-th segment of a file: n octets that alternate between
\* two values of their own (1 2 1 .. for the first segment, 3 4 3 .. for the
\* second), the last one a pad count
PadCount == 3
BodyBytes(n, k) ==
    [j \in 1..n |-> IF j = n THEN PadCount ELSE 2 * (k - 1) + 1 + ((j - 1) % 2)]

\* the octets of a segment: header, then len - 4 octets of body
SegBytes(len, attrs, type, k) ==
    <<len \div 256, len % 256, attrs, type>>
        \o BodyBytes(IF len > DLIS_LRSH_SIZE THEN len - DLIS_LRSH_SIZE ELSE 0, k)

\* the field values files are made of: the lengths of the k-th segment, the
\* (attributes, type) pairs of segments, the headers of the first visible record and the
\* headers a later segment may sit behind
SegLens(k) == IF k = 1 THEN {6, 10} ELSE {6}
SegKinds == {<<0, 0>>, <<32, 5>>, <<64, 5>>, <<144, 5>>, <<129, 0>>,
             <<47, 0>>}
FirstVrls == {VrlBytes(10, 1), VrlBytes(20, 1)}
LaterVrls == {VrlBytes(10, 1), VrlBytes(10, 2), VrlBytes(2, 1)}

\* the number of segments of the largest file
MaxSegs == 2

AllSegs(k) == {SegBytes(l, kind[1], kind[2], k) : l \in SegLens(k), kind \in SegKinds}

\* files of n segments, the first one behind a visible record header, every
\* other one behind a header or right behind the segment before it
RECURSIVE FilesOf(_)
FilesOf(n) ==
    IF n = 1 THEN {v \o s : v \in FirstVrls, s \in AllSegs(1)}
    ELSE {f \o g \o s : f \in FilesOf(n - 1), g \in LaterVrls \cup {<<>>},
                         s \in AllSegs(n)}

Files == UNION {FilesOf(n) : n \in 1..MaxSegs}

\* ---------------------------------------------------------------- stream

VARIABLES
    file,       \* the octets of the opened file
    tells,      \* stream::tells
    residuals,  \* stream::residuals
    fs,         \* stream::fs: read position and failbit
    at,         \* the last call of stream::at, if it is the last call made:
                \* program point, locals, outcome
    ext,        \* the outcome of stream.extract, if it is the last call made
    origin,     \* who made the installed index: "none", "indexer" or "caller"
    objects,    \* the outcome of parse_objects on the extracted batch
    rx,         \* the last call of stream::reindex, if it is the last call
                \* made: its arguments and outcome
    installed,  \* the arguments of the last call of reindex that returned
    loc,        \* the last call of findsul or findvrl: arguments and outcome
    fo,         \* the call of findoffsets: program point, locals, outcome
    cli,        \* the run of the command-line program: program point, buffer
                \* and stream sizes, exit
    dst         \* the last call of stream.get, if it is the last call made:
                \* arguments, outcome and the octets read

\* the state of the scanner's functions and of the command-line program,
\* which the stream does not touch
aside == <<loc, fo, cli>>

vars == <<file, tells, residuals, fs, at, ext, origin, objects, rx, installed,
          loc, fo, cli, dst>>

\* stream::contiguous, a member no code of io.cpp assigns
contiguous == TRUE

\* what a read of an object outside its lifetime may yield
UndefValues == {0, 1}

Min(a, b) == IF a < b THEN a ELSE b
Max(a, b) == IF a > b THEN a ELSE b

\* std::ifstream::seekg with eofbit and failbit set to throw: fails on a
\* stream that has failed before and on a negative position
FsSeekg(s, pos) ==
    IF s.fail \/ pos < 0 THEN [s EXCEPT !.fail = TRUE]
    ELSE [s EXCEPT !.pos = pos]

\* std::ifstream::read of n octets: fails unless all n are there
FsReadOk(s, n) == ~s.fail /\ n >= 0 /\ s.pos + n <= Len(file)
FsReadBytes(s, n) == SubSeq(file, s.pos + 1, s.pos + n)
FsRead(s, n) ==
    IF FsReadOk(s, n) THEN [s EXCEPT !.pos = s.pos + n]
    ELSE [s EXCEPT !.fail = TRUE]

\* std::ifstream::tellg
FsTellg(s) == IF s.fail THEN -1 ELSE s.pos

\* the lambda chop of stream::at
Chop(vec, bytes) ==
    LET size == Len(vec)
        new_size == Max(0, size - bytes)
    IN  SubSeq(vec, 1, new_size)

\* consumed_record that takes every record for the last one
consumed_record_always(tell, tls, i) == TRUE

\* consumed_record; i counts from 0, tells[i + 1] is the C++ tells[i]
consumed_record(tell, tls, i) ==
    IF i = Len(tls) - 1 THEN TRUE
    ELSE tell = tls[i + 2]

attr_consistent(attributes) == TRUE

type_consistent(types) == TRUE

\* the locals of stream::at outside a call
NoLocals ==
    [pc |-> "idle", i |-> 0, remaining |-> 0, attributes |-> <<>>,
     types |-> <<>>, consistent |-> TRUE, data |-> <<>>, len |-> 0,
     attrs |-> 0, start |-> 0, bodies |-> <<>>, vrls |-> <<>>,
     oob |-> FALSE, err |-> "",
     rec |-> [type |-> 0, attributes |-> 0, consistent |-> TRUE, data |-> <<>>]]

\* the head of the inner loop: while (remaining > 0), else the VRL
LoopHead(remaining) == IF remaining > 0 THEN "lrsh" ELSE "vrl"

\* AtEnter that starts every record with the residual of the first entry
AtEnter_firstresidual(s, i, data) ==
    IF i < 0 \/ i >= Len(tells) \/ i >= Len(residuals)
    THEN [l |-> [NoLocals EXCEPT !.pc = "throw", !.i = i, !.data = data,
                                 !.err = "out_of_range"],
          s |-> s]
    ELSE LET tell == tells[i + 1]
             remaining == residuals[1]
             s1 == FsSeekg(s, tell)
         IN  IF s1.fail
             THEN [l |-> [NoLocals EXCEPT !.pc = "throw", !.i = i,
                                          !.data = data, !.err = "ios_failure"],
                   s |-> s1]
             ELSE [l |-> [NoLocals EXCEPT !.pc = LoopHead(remaining), !.i = i,
                                          !.remaining = remaining,
                                          !.data = data, !.start = Len(data)],
                   s |-> s1]

\* stream::at to the head of its loop, on a record whose data is `data`
AtEnter(s, i, data) ==
    IF i < 0 \/ i >= Len(tells) \/ i >= Len(residuals)
    THEN [l |-> [NoLocals EXCEPT !.pc = "throw", !.i = i, !.data = data,
                                 !.err = "out_of_range"],
          s |-> s]
    ELSE LET tell == tells[i + 1]
             remaining == residuals[i + 1]
             s1 == FsSeekg(s, tell)
         IN  IF s1.fail
             THEN [l |-> [NoLocals EXCEPT !.pc = "throw", !.i = i,
                                          !.data = data, !.err = "ios_failure"],
                   s |-> s1]
             ELSE [l |-> [NoLocals EXCEPT !.pc = LoopHead(remaining), !.i = i,
                                          !.remaining = remaining,
                                          !.data = data, !.start = Len(data)],
                   s |-> s1]

\* one segment header: read it, take its length off remaining, throw when
\* the segment is longer than what is left of the visible record
AtLrshStep(l, s) ==
    IF ~FsReadOk(s, DLIS_LRSH_SIZE)
    THEN [l |-> [l EXCEPT !.pc = "throw", !.err = "ios_failure"],
          s |-> FsRead(s, DLIS_LRSH_SIZE)]
    ELSE LET h == Lrsh(FsReadBytes(s, DLIS_LRSH_SIZE))
             s1 == FsRead(s, DLIS_LRSH_SIZE)
             remaining == l.remaining - h.len
             len == h.len - DLIS_LRSH_SIZE
             l1 == [l EXCEPT !.remaining = remaining, !.len = len,
                             !.attrs = h.attrs,
                             !.consistent = IF h.err THEN FALSE ELSE l.consistent,
                             !.attributes = Append(l.attributes, h.attrs)]
         IN  IF remaining < 0
             THEN [l |-> [l1 EXCEPT !.pc = "throw", !.consistent = FALSE,
                                    !.err = "vrl_mismatch"],
                   s |-> s1]
             ELSE [l |-> [l1 EXCEPT !.pc = "body"], s |-> s1]

\* rec.data before the pad count is read: the trailing length and the
\* checksum of the segment chopped off
Untrail(data, attrs) ==
    LET f == SegmentAttributes(attrs)
        d1 == IF f.has_trailing_length THEN Chop(data, 2) ELSE data
    IN  IF f.has_checksum THEN Chop(d1, 2) ELSE d1

\* the read of the pad count is outside the vector when the payload is empty
PadOutside(data, attrs) ==
    SegmentAttributes(attrs).has_padding /\ Len(Untrail(data, attrs)) = 0

\* Strip that leaves the pad count octet in place
Strip_keepcount(data, attrs) ==
    LET d2 == Untrail(data, attrs)
        padcount == IF Len(d2) = 0 THEN 0 ELSE Ushort(d2[Len(d2)])
    IN  IF SegmentAttributes(attrs).has_padding
        THEN Chop(d2, Max(0, padcount - 1)) ELSE d2

\* rec.data after the trailing length, the checksum and the padding of one
\* segment are chopped off.  On an empty payload the pad count is read from
\* outside the vector: whatever octet that yields, chop leaves the empty
\* vector empty
Strip(data, attrs) ==
    LET d2 == Untrail(data, attrs)
        padcount == IF Len(d2) = 0 THEN 0 ELSE Ushort(d2[Len(d2)])
    IN  IF SegmentAttributes(attrs).has_padding THEN Chop(d2, padcount) ELSE d2

\* Commit with the attribute octet of the first segment left unmasked
Commit_unmasked(l, data, undeftype) ==
    [attributes |-> l.attributes[1],
     type |-> IF l.types = <<>> THEN undeftype ELSE l.types[1],
     consistent |-> l.consistent,
     data |-> data]

\* the record stream::at returns; types is never pushed to, so
\* types.front() reads the empty string and yields undeftype
Commit(l, data, undeftype) ==
    LET r0 == [attributes |-> MaskBits(l.attributes[1], DLIS_SEGATTR_EXFMTLR,
                                       DLIS_SEGATTR_ENCRYPT),
               type |-> IF l.types = <<>> THEN undeftype ELSE l.types[1],
               consistent |-> l.consistent,
               data |-> data]
        r1 == IF ~attr_consistent(l.attributes)
              THEN [r0 EXCEPT !.consistent = FALSE] ELSE r0
    IN  IF ~type_consistent(l.types) THEN [r1 EXCEPT !.consistent = FALSE] ELSE r1

\* one segment body: grow rec.data by len and read into it, strip, then
\* either go on with the next segment or check contiguity and return
AtBodyStep(l, s, undeftype) ==
    LET prevsize == Len(l.data)
        f == SegmentAttributes(l.attrs)
    IN  IF prevsize + l.len < 0
        THEN [l |-> [l EXCEPT !.pc = "throw", !.err = "length_error"], s |-> s]
        ELSE IF l.len < 0
        THEN [l |-> [l EXCEPT !.pc = "throw", !.err = "ios_failure",
                              !.data = SubSeq(l.data, 1, prevsize + l.len)],
              s |-> FsRead(s, l.len)]
        ELSE IF ~FsReadOk(s, l.len)
        THEN [l |-> [l EXCEPT !.pc = "throw", !.err = "ios_failure",
                              !.data = l.data
                                  \o SubSeq(file, s.pos + 1, Len(file))
                                  \o [j \in 1..(l.len - Max(0, Len(file) - s.pos))
                                          |-> 0]],
              s |-> FsRead(s, l.len)]
        ELSE LET s1 == FsRead(s, l.len)
                 data == Strip(l.data \o FsReadBytes(s, l.len), l.attrs)
                 l1 == [l EXCEPT !.data = data,
                                 !.oob = l.oob \/ PadOutside(
                                     l.data \o FsReadBytes(s, l.len), l.attrs),
                                 !.bodies = Append(l.bodies,
                                     [from |-> s.pos, len |-> l.len,
                                      attrs |-> l.attrs])]
             IN  IF f.has_successor
                 THEN [l |-> [l1 EXCEPT !.pc = LoopHead(l.remaining)], s |-> s1]
                 ELSE IF contiguous /\ ~consumed_record(FsTellg(s1), tells, l.i)
                 THEN [l |-> [l1 EXCEPT !.pc = "throw", !.err = "non_contiguous"],
                       s |-> s1]
                 ELSE [l |-> [l1 EXCEPT !.pc = "ret",
                                        !.rec = Commit(l1, data, undeftype)],
                       s |-> s1]

\* AtVrlStep that takes the header's length for what remains
AtVrlStep_whole(l, s) ==
    IF ~FsReadOk(s, DLIS_VRL_SIZE)
    THEN [l |-> [l EXCEPT !.pc = "throw", !.err = "ios_failure"],
          s |-> FsRead(s, DLIS_VRL_SIZE)]
    ELSE LET v == Vrl(FsReadBytes(s, DLIS_VRL_SIZE))
             c1 == IF v.err THEN FALSE ELSE l.consistent
             c2 == IF v.version # 1 THEN FALSE ELSE c1
             remaining == v.len
         IN  [l |-> [l EXCEPT !.consistent = c2, !.remaining = remaining,
                              !.vrls = Append(l.vrls, s.pos),
                              !.pc = LoopHead(remaining)],
              s |-> FsRead(s, DLIS_VRL_SIZE)]

\* AtVrlStep that does not look at the version
AtVrlStep_anyversion(l, s) ==
    IF ~FsReadOk(s, DLIS_VRL_SIZE)
    THEN [l |-> [l EXCEPT !.pc = "throw", !.err = "ios_failure"],
          s |-> FsRead(s, DLIS_VRL_SIZE)]
    ELSE LET v == Vrl(FsReadBytes(s, DLIS_VRL_SIZE))
             c1 == IF v.err THEN FALSE ELSE l.consistent
             remaining == v.len - DLIS_VRL_SIZE
         IN  [l |-> [l EXCEPT !.consistent = c1, !.remaining = remaining,
                              !.vrls = Append(l.vrls, s.pos),
                              !.pc = LoopHead(remaining)],
              s |-> FsRead(s, DLIS_VRL_SIZE)]

\* one visible record header, read when nothing remains of the visible
\* record: a bad header or version only clears consistent
AtVrlStep(l, s) ==
    IF ~FsReadOk(s, DLIS_VRL_SIZE)
    THEN [l |-> [l EXCEPT !.pc = "throw", !.err = "ios_failure"],
          s |-> FsRead(s, DLIS_VRL_SIZE)]
    ELSE LET v == Vrl(FsReadBytes(s, DLIS_VRL_SIZE))
             c1 == IF v.err THEN FALSE ELSE l.consistent
             c2 == IF v.version # 1 THEN FALSE ELSE c1
             remaining == v.len - DLIS_VRL_SIZE
         IN  [l |-> [l EXCEPT !.consistent = c2, !.remaining = remaining,
                              !.vrls = Append(l.vrls, s.pos),
                              !.pc = LoopHead(remaining)],
              s |-> FsRead(s, DLIS_VRL_SIZE)]

\* stream::at from one program point to the next
AtStep(l, s, undeftype) ==
    CASE l.pc = "lrsh" -> AtLrshStep(l, s)
      [] l.pc = "body" -> AtBodyStep(l, s, undeftype)
      [] l.pc = "vrl"  -> AtVrlStep(l, s)
      [] OTHER -> [l |-> l, s |-> s]

AtDone(l) == l.pc \in {"idle", "ret", "throw"}

\* stream::at run from a program point to its return or throw
RECURSIVE AtFinish(_, _, _)
AtFinish(l, s, undeftype) ==
    IF AtDone(l) THEN [l |-> l, s |-> s]
    ELSE LET n == AtStep(l, s, undeftype)
         IN  AtFinish(n.l, n.s, undeftype)

\* record stream::at( int i ): a fresh record, the whole call
AtRun(s, i, undeftype) ==
    LET e == AtEnter(s, i, <<>>) IN AtFinish(e.l, e.s, undeftype)

\* ---------------------------------------------------------------- index

\* dlis_index_records as the envelope scanner is specified: a visible
\* record header is decoded when nothing remains of the visible record, an
\* entry is recorded at every segment without predecessor, and the scan
\* ends at the end of the file.  segs, vrls and rest keep the headers seen
\* and what remains of the last visible record
RECURSIVE IndexScan(_, _, _, _)
IndexScan(f, cursor, residual, ofs) ==
    IF cursor = Len(f) THEN [ofs EXCEPT !.err = "ok", !.rest = residual]
    ELSE IF residual = 0
    THEN IF cursor + DLIS_VRL_SIZE > Len(f) THEN [ofs EXCEPT !.err = "truncated"]
         ELSE LET v == Vrl(SubSeq(f, cursor + 1, cursor + DLIS_VRL_SIZE))
              IN  IF v.len <= DLIS_VRL_SIZE
                  THEN [ofs EXCEPT !.err = "inconsistent"]
                  ELSE IndexScan(f, cursor + DLIS_VRL_SIZE,
                                 v.len - DLIS_VRL_SIZE,
                                 [ofs EXCEPT !.vrls = Append(@, v)])
    ELSE IF cursor + DLIS_LRSH_SIZE > Len(f) THEN [ofs EXCEPT !.err = "truncated"]
    ELSE LET h == Lrsh(SubSeq(f, cursor + 1, cursor + DLIS_LRSH_SIZE))
             f8 == SegmentAttributes(h.attrs)
             o0 == [ofs EXCEPT !.segs = Append(@, [attrs |-> h.attrs,
                                                   type |-> h.type])]
             o1 == IF f8.has_predecessor THEN o0
                   ELSE [o0 EXCEPT !.tells = Append(@, cursor),
                                   !.residuals = Append(@, residual),
                                   !.explicits = Append(@, f8.explicit_formatting)]
         IN  IF h.len < DLIS_LRSH_SIZE THEN [ofs EXCEPT !.err = "unexpected_value"]
             ELSE IF residual - h.len < 0 THEN [ofs EXCEPT !.err = "inconsistent"]
             ELSE IF cursor + h.len > Len(f) THEN [ofs EXCEPT !.err = "truncated"]
             ELSE IndexScan(f, cursor + h.len, residual - h.len, o1)

IndexRecords(f, from) ==
    IndexScan(f, from, 0,
              [tells |-> <<>>, residuals |-> <<>>, explicits |-> <<>>,
               segs |-> <<>>, vrls |-> <<>>, rest |-> 0, err |-> ""])

\* the indexes a caller hands to reindex besides the scanner's
CallerIndexes ==
    {[tells |-> <<0>>, residuals |-> <<0>>],
     [tells |-> <<4, 14>>, residuals |-> <<6, 16>>],
     [tells |-> <<>>, residuals |-> <<>>],
     [tells |-> <<0>>, residuals |-> <<6, 16>>],
     [tells |-> <<>>, residuals |-> <<6>>],
     [tells |-> <<4>>, residuals |-> <<>>],
     [tells |-> <<-1>>, residuals |-> <<6>>]}

\* ReindexOk that does not compare the sizes
ReindexOk_anysize(tls, res) == tls # <<>> /\ res # <<>>

\* stream::reindex: the three checks that throw std::invalid_argument
ReindexOk(tls, res) == tls # <<>> /\ res # <<>> /\ Len(tls) = Len(res)

\* ---------------------------------------------------------------- calls

\* no batch extracted
NoBatch == [status |-> "none", recs |-> <<>>, err |-> ""]

\* no batch parsed
NoObjects == [status |-> "none", parsed |-> <<>>]

\* reindex is not the last call made
NoReindex == [status |-> "none", tells |-> <<>>, residuals |-> <<>>]

\* no call of findsul or findvrl made
NoLoc == [op |-> "none", from |-> 0, status |-> "none", offset |-> 0]

\* findoffsets not called
NoOffsets ==
    [pc |-> "idle", from |-> 0, begin |-> 0, alloc_size |-> 0, size |-> 0,
     count |-> 0, initial_residual |-> 0, tells |-> <<>>, residuals |-> <<>>,
     explicits |-> <<>>, err |-> "", passes |-> 0]

\* the command-line program not started
NoCli ==
    [pc |-> "idle", args |-> 0, pos |-> 0, buffer |-> <<>>, printed |-> <<>>,
     exit |-> "none"]

\* stream.get not called
NoDst == [status |-> "none", offset |-> 0, n |-> 0, bytes |-> <<>>]

\* stream::stream: the file open and readable, no index yet
StreamInit ==
    /\ tells = <<>>
    /\ residuals = <<>>
    /\ fs = [pos |-> 0, fail |-> FALSE]
    /\ at = NoLocals
    /\ ext = NoBatch
    /\ origin = "none"
    /\ objects = NoObjects
    /\ rx = NoReindex
    /\ installed = [tells |-> <<>>, residuals |-> <<>>]

\* nothing called yet of the scanner's functions, the program not started
AsideInit ==
    /\ loc = NoLoc
    /\ fo = NoOffsets
    /\ cli = NoCli
    /\ dst = NoDst

Init ==
    /\ file \in Files
    /\ StreamInit
    /\ AsideInit

\* stream::reindex: throw on a bad pair of vectors, else install it
ReindexCall(tls, res, who) ==
    /\ AtDone(at)
    /\ IF ReindexOk(tls, res)
       THEN /\ tells' = tls
            /\ residuals' = res
            /\ origin' = who
            /\ installed' = [tells |-> tls, residuals |-> res]
            /\ rx' = [status |-> "ok", tells |-> tls, residuals |-> res]
       ELSE /\ rx' = [status |-> "invalid_argument", tells |-> tls,
                      residuals |-> res]
            /\ UNCHANGED <<tells, residuals, origin, installed>>
    /\ at' = NoLocals
    /\ ext' = NoBatch
    /\ objects' = NoObjects
    /\ UNCHANGED <<file, fs, aside>>
    /\ dst' = NoDst

\* reindex with the index the scanner made of the file
ReindexScanned ==
    LET ofs == IndexRecords(file, 0)
    IN  /\ ofs.err = "ok"
        /\ ReindexCall(ofs.tells, ofs.residuals, "indexer")

\* reindex with an index of the caller's
Reindex(tls, res) == ReindexCall(tls, res, "caller")

\* stream.__getitem__: at(i) on a fresh record, up to the head of its loop
AtCall(i) ==
    /\ AtDone(at)
    /\ LET e == AtEnter(fs, i, <<>>)
       IN  at' = e.l /\ fs' = e.s
    /\ ext' = NoBatch
    /\ objects' = NoObjects
    /\ rx' = NoReindex
    /\ UNCHANGED <<file, tells, residuals, origin, installed, aside>>
    /\ dst' = NoDst

AtLrsh ==
    /\ at.pc = "lrsh"
    /\ LET n == AtLrshStep(at, fs)
       IN  at' = n.l /\ fs' = n.s
    /\ UNCHANGED <<file, tells, residuals, ext, origin, objects, rx,
                   installed, aside>>
    /\ dst' = NoDst

AtBody ==
    /\ at.pc = "body"
    /\ \E undeftype \in UndefValues :
          LET n == AtBodyStep(at, fs, undeftype)
          IN  at' = n.l /\ fs' = n.s
    /\ UNCHANGED <<file, tells, residuals, ext, origin, objects, rx,
                   installed, aside>>
    /\ dst' = NoDst

AtVrl ==
    /\ at.pc = "vrl"
    /\ LET n == AtVrlStep(at, fs)
       IN  at' = n.l /\ fs' = n.s
    /\ UNCHANGED <<file, tells, residuals, ext, origin, objects, rx,
                   installed, aside>>
    /\ dst' = NoDst

\* the number of indices of the longest batch
MaxBatch == 2

Batches == UNION {[1..n -> 0..(MaxSegs - 1)] : n \in 0..MaxBatch}

\* stream.extract: at(i) for every index, the records in a vector
RECURSIVE ExtractRun(_, _, _, _)
ExtractRun(s, indices, recs, undeftype) ==
    IF indices = <<>> THEN [status |-> "ok", recs |-> recs, err |-> "", s |-> s]
    ELSE LET r == AtRun(s, Head(indices), undeftype)
         IN  IF r.l.pc = "throw"
             THEN [status |-> "error", recs |-> <<>>, err |-> r.l.err, s |-> r.s]
             ELSE ExtractRun(r.s, Tail(indices), Append(recs, r.l.rec),
                             undeftype)

Extract(indices) ==
    /\ AtDone(at)
    /\ \E undeftype \in UndefValues :
          LET r == ExtractRun(fs, indices, <<>>, undeftype)
          IN  /\ ext' = [status |-> r.status, recs |-> r.recs, err |-> r.err]
              /\ fs' = r.s
    /\ at' = NoLocals
    /\ objects' = NoObjects
    /\ rx' = NoReindex
    /\ UNCHANGED <<file, tells, residuals, origin, installed, aside>>
    /\ dst' = NoDst

\* record::isexplicit, record::isencrypted
isexplicit(rec) == HasBit(rec.attributes, DLIS_SEGATTR_EXFMTLR)
isencrypted(rec) == HasBit(rec.attributes, DLIS_SEGATTR_ENCRYPT)

\* parse_objects from the k-th record of the batch on: the object-set
\* parser is run on the data of every record that is not encrypted; a set
\* is kept as the place and the data of the record it was parsed from
RECURSIVE ParseObjectsRun(_, _, _)
ParseObjectsRun(recs, k, parsed) ==
    IF k > Len(recs) THEN parsed
    ELSE IF isencrypted(recs[k]) THEN ParseObjectsRun(recs, k + 1, parsed)
    ELSE ParseObjectsRun(recs, k + 1,
                         Append(parsed, [of |-> k, data |-> recs[k].data]))

\* parse_objects on the batch extract returned
ParseObjects ==
    /\ ext.status = "ok"
    /\ objects.status = "none"
    /\ objects' = [status |-> "ok", parsed |-> ParseObjectsRun(ext.recs, 1, <<>>)]
    /\ UNCHANGED <<file, tells, residuals, fs, at, ext, origin, rx, installed,
                   aside>>
    /\ dst' = NoDst

Next ==
    \/ ReindexScanned
    \/ \E ix \in CallerIndexes : Reindex(ix.tells, ix.residuals)
    \/ \E i \in 0..(MaxSegs - 1) : AtCall(i)
    \/ AtLrsh
    \/ AtBody
    \/ AtVrl
    \/ \E indices \in Batches : Extract(indices)
    \/ ParseObjects

Spec == Init /\ [][Next]_vars

\* ---------------------------------------------------------------- short

\* segments whose length field is less than the size of their header, and
\* segments of 6 and 10 octets before and behind them
ShortSegs(k) ==
    {SegBytes(len, attrs, 0, k) :
        len \in {0, 2, 6, 10},
        attrs \in {DLIS_SEGATTR_SUCCSEG, DLIS_SEGATTR_PREDSEG,
                   DLIS_SEGATTR_PREDSEG + DLIS_SEGATTR_SUCCSEG}}

\* files of two such segments in one visible record, or in two
ShortFiles ==
    {VrlBytes(20, 1) \o s1 \o g \o s2 :
        s1 \in ShortSegs(1), g \in {<<>>, VrlBytes(10, 1)}, s2 \in ShortSegs(2)}

\* the indexes a caller hands to reindex for them
ShortIndexes ==
    {[tells |-> <<0>>, residuals |-> <<0>>],
     [tells |-> <<4>>, residuals |-> <<16>>],
     [tells |-> <<4, 14>>, residuals |-> <<16, 6>>],
     [tells |-> <<4>>, residuals |-> <<6>>]}

InitShort ==
    /\ file \in ShortFiles
    /\ StreamInit
    /\ AsideInit

NextShort ==
    \/ \E ix \in ShortIndexes : Reindex(ix.tells, ix.residuals)
    \/ \E i \in 0..(MaxSegs - 1) : AtCall(i)
    \/ AtLrsh
    \/ AtBody
    \/ AtVrl

SpecShort == InitShort /\ [][NextShort]_vars

\* ---------------------------------------------------------------- reuse

\* the octets a record may hold when it is handed to at( i, rec ) again
MaxHeld == 6

\* the arguments of stream.get: the size of the buffer, the offset, the count
GetSizes == {4, 100}
GetOffsets == {-1, 0, 8}
GetCounts == {-1, 4, 100}

\* stream::read: the two checks, the seek, the read of n octets
StreamRead(s, offset, n) ==
    IF n < 0 THEN [status |-> "invalid_argument", bytes |-> <<>>, s |-> s]
    ELSE IF offset < 0
    THEN [status |-> "invalid_argument", bytes |-> <<>>, s |-> s]
    ELSE LET s1 == FsSeekg(s, offset)
         IN  IF s1.fail
             THEN [status |-> "ios_failure", bytes |-> <<>>, s |-> s1]
             ELSE IF ~FsReadOk(s1, n)
             THEN [status |-> "ios_failure",
                   bytes |-> SubSeq(file, s1.pos + 1, Len(file)),
                   s |-> FsRead(s1, n)]
             ELSE [status |-> "ok", bytes |-> FsReadBytes(s1, n),
                   s |-> FsRead(s1, n)]

\* Get that keeps the offset it read from as the one tell of the stream
Get_storing(size, off, n) ==
    /\ AtDone(at)
    /\ LET r == IF size < n
                THEN [status |-> "invalid_argument", bytes |-> <<>>, s |-> fs]
                ELSE StreamRead(fs, off, n)
       IN  /\ dst' = [status |-> r.status, offset |-> off, n |-> n,
                      bytes |-> r.bytes]
           /\ fs' = r.s
    /\ tells' = <<off>>
    /\ at' = NoLocals
    /\ ext' = NoBatch
    /\ objects' = NoObjects
    /\ rx' = NoReindex
    /\ UNCHANGED <<file, residuals, origin, installed, loc, fo, cli>>

\* stream.get: the check of the buffer's size, then stream::read
Get(size, off, n) ==
    /\ AtDone(at)
    /\ LET r == IF size < n
                THEN [status |-> "invalid_argument", bytes |-> <<>>, s |-> fs]
                ELSE StreamRead(fs, off, n)
       IN  /\ dst' = [status |-> r.status, offset |-> off, n |-> n,
                      bytes |-> r.bytes]
           /\ fs' = r.s
    /\ at' = NoLocals
    /\ ext' = NoBatch
    /\ objects' = NoObjects
    /\ rx' = NoReindex
    /\ UNCHANGED <<file, tells, residuals, origin, installed, loc, fo, cli>>

\* file.at( i, record ) of the loop of read_fdata: at(i) on the record the
\* call of at before it left, up to the head of its loop
AtInto(i) ==
    /\ AtDone(at)
    /\ Len(at.data) <= MaxHeld
    /\ LET e == AtEnter(fs, i, at.data)
       IN  at' = e.l /\ fs' = e.s
    /\ ext' = NoBatch
    /\ objects' = NoObjects
    /\ rx' = NoReindex
    /\ UNCHANGED <<file, tells, residuals, origin, installed, aside>>
    /\ dst' = NoDst

\* the files a record is reused on: those of one segment, and those of
\* two segments in one visible record of 20 octets
ReuseFiles ==
    FilesOf(1) \cup {f \in FilesOf(2) : f[2] = 20 /\ Len(f) = 20}

\* the indexes a caller hands to reindex on them besides the scanner's
ReuseIndexes ==
    {[tells |-> <<0>>, residuals |-> <<0>>],
     [tells |-> <<>>, residuals |-> <<>>]}

InitReuse ==
    /\ file \in ReuseFiles
    /\ StreamInit
    /\ AsideInit

NextReuse ==
    \/ ReindexScanned
    \/ \E ix \in ReuseIndexes : Reindex(ix.tells, ix.residuals)
    \/ \E i \in 0..(MaxSegs - 1) : AtCall(i)
    \/ \E i \in 0..(MaxSegs - 1) : AtInto(i)
    \/ AtLrsh
    \/ AtBody
    \/ AtVrl
    \/ \E size \in GetSizes, off \in GetOffsets, n \in GetCounts :
          Get(size, off, n)
    \/ \E indices \in Batches : Extract(indices)

SpecReuse == InitReuse /\ [][NextReuse]_vars

\* ---------------------------------------------------------------- locate

\* the literal RECORD of findsul and the pattern 0xFF 0x01 of findvrl
RecordNeedle == <<82, 69, 67, 79, 82, 68>>
VrlNeedle == <<255, 1>>

\* the number of octets findsul and findvrl search
search_limit == 200

\* the octets before the structure field of the label
structure_offset == 9

DLIS_SIZEOF_UNORM == 2

\* an octet as the char the map holds, and a char as the unsigned char
\* findvrl reads it as
Char(b) == IF b >= 128 THEN b - 256 ELSE b
UChar_promoted(c) == c
UChar(c) == (c + 256) % 256

\* std::search: the first p with first <= p, the needle at the elements
\* p .. p + Len(needle) - 1 and all of them before last; last if there is none
Search(buf, first, last, needle) ==
    LET hits == {p \in first..(last - Len(needle)) :
                    \A j \in 1..Len(needle) : buf[p + j] = needle[j]}
    IN  IF hits = {} THEN last
        ELSE CHOOSE p \in hits : \A q \in hits : p <= q

\* findsul that searches the whole file
findsul_nolimit(f) ==
    LET chars == [k \in 1..Len(f) |-> Char(f[k])]
        first == 0
        last == first + Len(f)
        itr == Search(chars, first, last, RecordNeedle)
    IN  IF itr = last THEN [status |-> "not_found", offset |-> 0]
        ELSE IF itr - first < structure_offset
        THEN [status |-> "runtime_error", offset |-> 0]
        ELSE [status |-> "ok", offset |-> itr - structure_offset]

\* findsul
findsul(f) ==
    LET chars == [k \in 1..Len(f) |-> Char(f[k])]
        first == 0
        last == first + Min(Len(f), search_limit)
        itr == Search(chars, first, last, RecordNeedle)
    IN  IF itr = last THEN [status |-> "not_found", offset |-> 0]
        ELSE IF itr - first < structure_offset
        THEN [status |-> "runtime_error", offset |-> 0]
        ELSE [status |-> "ok", offset |-> itr - structure_offset]

\* findvrl
findvrl(f, from) ==
    IF from < 0 THEN [status |-> "out_of_range", offset |-> 0]
    ELSE IF from > Len(f) THEN [status |-> "out_of_range", offset |-> 0]
    ELSE LET limit == Min(Len(f) - from, search_limit)
             front == [k \in 1..Len(f) |-> UChar(Char(f[k]))]
             first == from
             last == first + limit
             itr == Search(front, first, last, VrlNeedle)
         IN  IF itr = last THEN [status |-> "not_found", offset |-> 0]
             ELSE IF itr - first < DLIS_SIZEOF_UNORM
             THEN [status |-> "runtime_error", offset |-> 0]
             ELSE [status |-> "ok", offset |-> itr - DLIS_SIZEOF_UNORM]

\* n octets of no meaning
Fill(n) == [j \in 1..n |-> 0]

\* the places of the needle in the files searched, and the octets behind it
SulPlaces == {0, 8, 9, 12, 100, 194, 195, 199, 205}
VrlPlaces == {0, 1, 2, 6, 100, 197, 198, 199, 200, 206}
Tails == {0, 9}

\* files to search: the needle once, the needle twice, the needle behind a
\* part of itself, no needle, and files of one segment
LocFiles ==
    {Fill(p) \o RecordNeedle \o Fill(t) : p \in SulPlaces, t \in Tails}
    \cup {Fill(p) \o VrlNeedle \o Fill(t) : p \in VrlPlaces, t \in Tails}
    \cup {Fill(12) \o RecordNeedle \o Fill(3) \o RecordNeedle,
          Fill(3) \o RecordNeedle \o Fill(9) \o RecordNeedle,
          Fill(9) \o SubSeq(RecordNeedle, 1, 5) \o RecordNeedle,
          Fill(192) \o SubSeq(RecordNeedle, 1, 2) \o RecordNeedle,
          Fill(4) \o <<255, 255, 1>> \o Fill(2) \o VrlNeedle,
          Fill(1) \o VrlNeedle \o Fill(3) \o VrlNeedle,
          Fill(4) \o <<1, 255>> \o Fill(4),
          Fill(12) \o RecordNeedle \o Fill(2) \o <<0, 20>> \o VrlNeedle,
          Fill(5), Fill(210)}
    \cup FilesOf(1)

\* where findvrl is told to start
Froms(f) == {-1, 0, 1, 3, 4, 5, 6, 20, Len(f) - 1, Len(f), Len(f) + 1}

InitLocate ==
    /\ file \in LocFiles
    /\ StreamInit
    /\ AsideInit

FindSul ==
    /\ LET r == findsul(file)
       IN  loc' = [op |-> "findsul", from |-> 0, status |-> r.status,
                   offset |-> r.offset]
    /\ UNCHANGED <<file, tells, residuals, fs, at, ext, origin, objects, rx,
                   installed, fo, cli, dst>>

FindVrl(from) ==
    /\ LET r == findvrl(file, from)
       IN  loc' = [op |-> "findvrl", from |-> from, status |-> r.status,
                   offset |-> r.offset]
    /\ UNCHANGED <<file, tells, residuals, fs, at, ext, origin, objects, rx,
                   installed, fo, cli, dst>>

NextLocate ==
    \/ FindSul
    \/ \E from \in Froms(file) : FindVrl(from)

SpecLocate == InitLocate /\ [][NextLocate]_vars

\* ---------------------------------------------------------------- offsets

\* the octets findoffsets assumes a segment to have on average
BytesPerSegment == 4196

\* ofs.resize( prev_size * 1.5 ): the product converted to std::size_t
Grow(prev_size) == (3 * prev_size) \div 2

\* the passes of findoffsets followed
MaxPasses == 3

\* one call of dlis_index_records as the envelope scanner is specified,
\* with room for allocsize entries: the scan of IndexScan from `cursor`
\* with `residual` octets left of the visible record, that stops at the end
\* of the file or at the segment whose entry has no room.  The tells it
\* writes are distances from `end`, the end of the file: findoffsets
\* makes offsets of them by adding the size of the file
RECURSIVE IndexPass(_, _, _, _, _)
IndexPass(f, cursor, residual, allocsize, out) ==
    IF cursor = Len(f)
    THEN [out EXCEPT !.err = "ok", !.next = cursor, !.residual = residual]
    ELSE IF residual = 0
    THEN IF cursor + DLIS_VRL_SIZE > Len(f) THEN [out EXCEPT !.err = "truncated"]
         ELSE LET v == Vrl(SubSeq(f, cursor + 1, cursor + DLIS_VRL_SIZE))
              IN  IF v.len <= DLIS_VRL_SIZE
                  THEN [out EXCEPT !.err = "inconsistent"]
                  ELSE IndexPass(f, cursor + DLIS_VRL_SIZE,
                                 v.len - DLIS_VRL_SIZE, allocsize, out)
    ELSE IF cursor + DLIS_LRSH_SIZE > Len(f) THEN [out EXCEPT !.err = "truncated"]
    ELSE LET h == Lrsh(SubSeq(f, cursor + 1, cursor + DLIS_LRSH_SIZE))
             f8 == SegmentAttributes(h.attrs)
             o1 == IF f8.has_predecessor THEN out
                   ELSE [out EXCEPT !.tells = Append(@, cursor - Len(f)),
                                    !.residuals = Append(@, residual),
                                    !.explicits = Append(@, f8.explicit_formatting)]
         IN  IF ~f8.has_predecessor /\ Len(out.tells) = allocsize
             THEN [out EXCEPT !.err = "ok", !.next = cursor,
                              !.residual = residual]
             ELSE IF h.len < DLIS_LRSH_SIZE
             THEN [out EXCEPT !.err = "unexpected_value"]
             ELSE IF residual - h.len < 0 THEN [out EXCEPT !.err = "inconsistent"]
             ELSE IF cursor + h.len > Len(f) THEN [out EXCEPT !.err = "truncated"]
             ELSE IndexPass(f, cursor + h.len, residual - h.len, allocsize, o1)

\* dlis_index_records( begin, end, alloc_size, &initial_residual, &next,
\*                     &count, ... )
dlis_index_records(f, begin, allocsize, initial_residual) ==
    IndexPass(f, begin, initial_residual, allocsize,
              [tells |-> <<>>, residuals |-> <<>>, explicits |-> <<>>,
               next |-> begin, residual |-> initial_residual, err |-> ""])

\* the tells as findoffsets returns them, without the size of the file added
Rebase_none(tls, dist) == tls

\* for (auto& tell : tells) tell += dist;
Rebase(tls, dist) == [k \in 1..Len(tls) |-> tls[k] + dist]

\* a segment of len octets, header included, with a body of no meaning
BigSeg(len, attrs) == <<len \div 256, len % 256, attrs, 0>> \o Fill(len - 4)

\* the header of a visible record of len octets
BigVrl(len) == <<len \div 256, len % 256, 255, 1>>

\* files of BytesPerSegment octets and more: one record; two records in
\* room for one; three records in room for two; a record over two visible
\* records; a record behind 80 octets, as behind a storage unit label
BigFiles ==
    {BigVrl(4196) \o BigSeg(4192, 0),
     BigVrl(4200) \o BigSeg(4092, 128) \o BigSeg(104, 0),
     BigVrl(8400) \o BigSeg(4000, 0) \o BigSeg(4000, 128) \o BigSeg(396, 0),
     BigVrl(4200) \o BigSeg(4196, 32) \o BigVrl(4200) \o BigSeg(4196, 64),
     Fill(80) \o BigVrl(4196) \o BigSeg(4192, 128)}

\* where findoffsets is told to start in a file: at its first octet, behind
\* a first visible record, behind a label
OffsetFroms(f) == {from \in {0, 10, 80, 4200} : from <= Len(f)}

InitIndex ==
    /\ file \in Files \cup BigFiles
    /\ StreamInit
    /\ AsideInit

\* findoffsets up to its loop
FindOffsetsCall(from) ==
    /\ fo.pc \in {"idle", "done", "failed"}
    /\ LET alloc_size == Len(file) \div BytesPerSegment
       IN  fo' = [pc |-> "loop", from |-> from, begin |-> from,
                  alloc_size |-> alloc_size, size |-> alloc_size,
                  count |-> 0, initial_residual |-> 0, tells |-> <<>>,
                  residuals |-> <<>>, explicits |-> <<>>, err |-> "",
                  passes |-> 0]
    /\ UNCHANGED <<file, tells, residuals, fs, at, ext, origin, objects, rx,
                   installed, loc, cli, dst>>

\* one turn of the loop of findoffsets, and what follows the loop when the
\* turn leaves it
FindOffsetsPass ==
    /\ fo.pc = "loop"
    /\ fo.passes < MaxPasses
    /\ LET r == dlis_index_records(file, fo.begin, fo.alloc_size,
                                   fo.initial_residual)
           count == fo.count + Len(r.tells)
           tls == fo.tells \o r.tells
           res == fo.residuals \o r.residuals
           exs == fo.explicits \o r.explicits
           prev_size == fo.size
       IN  IF r.err # "ok"
           THEN fo' = [fo EXCEPT !.pc = "failed", !.err = "runtime_error"]
           ELSE IF r.next = Len(file)
           THEN fo' = [fo EXCEPT !.pc = "done", !.count = count,
                                 !.size = count,
                                 !.initial_residual = r.residual,
                                 !.tells = Rebase(tls, Len(file)),
                                 !.residuals = res, !.explicits = exs]
           ELSE fo' = [fo EXCEPT !.count = count,
                                 !.initial_residual = r.residual,
                                 !.tells = tls, !.residuals = res,
                                 !.explicits = exs,
                                 !.size = Grow(prev_size),
                                 !.alloc_size = Grow(prev_size) - prev_size,
                                 !.begin = r.next,
                                 !.passes = @ + 1]
    /\ UNCHANGED <<file, tells, residuals, fs, at, ext, origin, objects, rx,
                   installed, loc, cli, dst>>

NextIndex ==
    \/ \E from \in OffsetFroms(file) : FindOffsetsCall(from)
    \/ FindOffsetsPass

SpecIndex == InitIndex /\ [][NextIndex]_vars

\* ---------------------------------------------------------------- program

DLIS_SUL_SIZE == 80

\* n spaces
Spaces(n) == [j \in 1..n |-> 32]

\* a storage unit label: sequence number, version (major, minor), the
\* structure RECORD, the maximum record length, the identifier
SulBytes(major, minor) ==
    Spaces(3) \o <<49>> \o <<86, 48 + major, 46, 48 + minor, 48>>
        \o RecordNeedle \o <<48, 56, 49, 57, 50>> \o Spaces(60)

\* the octets before the label, between the label and the header of the
\* first visible record, and behind that header
CliGarbage == {0, 12, 121, 185}
CliGaps == {0, 10, 196, 197}
CliTails == {0, 195, 196}

\* the files the program is run on: a label and a visible record header
\* with octets before, between and behind them; the least file of the
\* format; a file with no label, with RECORD too early, with a label of
\* another version, with no visible record, with 0xFF 0x01 too early; an
\* empty file
CliFiles ==
    {Fill(g) \o SulBytes(1, 0) \o Fill(v) \o VrlBytes(8192, 1) \o Fill(t) :
        g \in CliGarbage, v \in CliGaps, t \in CliTails}
    \cup {SulBytes(1, 0) \o VrlBytes(20, 1) \o SegBytes(16, 0, 0, 1),
          Fill(300),
          Fill(3) \o RecordNeedle \o Fill(300),
          SulBytes(2, 0) \o VrlBytes(8192, 1) \o Fill(196),
          SulBytes(1, 0) \o Fill(200),
          SulBytes(1, 0) \o <<0>> \o VrlNeedle \o Fill(200),
          <<>>}

\* dlis_find_sul and dlis_find_vrl on the buffer, as find_sul and find_vrl
\* are specified
dlis_find_sul(buffer) == findsul(buffer)
dlis_find_vrl(buffer) == findvrl(buffer, 0)

\* dlis_sul: a label of version 1.0 is parsed, another is not
dlis_sul(buffer) ==
    [err |-> SubSeq(buffer, 5, 9) # <<86, 49, 46, 48, 48>>]

\* an exception leaves main: std::terminate
Terminate(c) == [c EXCEPT !.pc = "exited", !.exit = "abort"]

\* std::exit( EXIT_FAILURE )
ExitFailure(c) == [c EXCEPT !.pc = "exited", !.exit = "EXIT_FAILURE"]

\* read_back: fills the buffer up to target_size octets from the file; the
\* read throws when the file ends before (eofbit is in fs.exceptions)
read_back(c, target_size) ==
    LET current_size == Len(c.buffer)
        n == target_size - current_size
    IN  IF target_size < current_size THEN [c |-> c, threw |-> FALSE]
        ELSE IF c.pos + n > Len(file) THEN [c |-> c, threw |-> TRUE]
        ELSE [c |-> [c EXCEPT !.buffer = @ \o SubSeq(file, c.pos + 1, c.pos + n),
                              !.pos = @ + n],
              threw |-> FALSE]

\* buffer.erase( buffer.begin(), buffer.begin() + n )
Erase(buffer, n) == SubSeq(buffer, n + 1, Len(buffer))

InitCli ==
    /\ file \in CliFiles
    /\ StreamInit
    /\ AsideInit

\* main up to the first read: the argument count, the open
CliStart(args, openable) ==
    /\ cli.pc = "idle"
    /\ LET c == [cli EXCEPT !.args = args]
       IN  cli' = IF args # 2 THEN ExitFailure(c)
                  ELSE IF ~openable THEN Terminate(c)
                  ELSE [c EXCEPT !.pc = "sul"]
    /\ UNCHANGED <<file, tells, residuals, fs, at, ext, origin, objects, rx,
                   installed, loc, fo, dst>>

\* read SUL: read_back, find_sul, erase
CliSul ==
    /\ cli.pc = "sul"
    /\ LET r == read_back(cli, 200)
           found == dlis_find_sul(r.c.buffer)
       IN  cli' = IF r.threw THEN Terminate(cli)
                  ELSE IF found.status # "ok" THEN ExitFailure(r.c)
                  ELSE [r.c EXCEPT !.pc = "label",
                                   !.buffer = Erase(@, found.offset)]
    /\ UNCHANGED <<file, tells, residuals, fs, at, ext, origin, objects, rx,
                   installed, loc, fo, dst>>

\* parse & print the SUL: read_back, print_sul, erase
CliLabel ==
    /\ cli.pc = "label"
    /\ LET r == read_back(cli, DLIS_SUL_SIZE)
       IN  cli' = IF r.threw THEN Terminate(cli)
                  ELSE IF Len(r.c.buffer) < DLIS_SUL_SIZE THEN Terminate(r.c)
                  ELSE IF dlis_sul(r.c.buffer).err THEN ExitFailure(r.c)
                  ELSE [r.c EXCEPT !.pc = "vrl",
                                   !.printed = Append(@, "sul"),
                                   !.buffer = Erase(@, DLIS_SUL_SIZE)]
    /\ UNCHANGED <<file, tells, residuals, fs, at, ext, origin, objects, rx,
                   installed, loc, fo, dst>>

\* look for the VRL: read_back, find_vrl, erase, print_envelope, erase, and
\* the end of main
CliVrl ==
    /\ cli.pc = "vrl"
    /\ LET r == read_back(cli, 200)
           found == dlis_find_vrl(r.c.buffer)
           buffer == Erase(r.c.buffer, found.offset)
       IN  cli' = IF r.threw THEN Terminate(cli)
                  ELSE IF found.status # "ok" THEN ExitFailure(r.c)
                  ELSE IF Len(buffer) < DLIS_VRL_SIZE
                  THEN Terminate([r.c EXCEPT !.buffer = buffer])
                  ELSE IF Vrl(SubSeq(buffer, 1, DLIS_VRL_SIZE)).err
                  THEN ExitFailure([r.c EXCEPT !.buffer = buffer])
                  ELSE [r.c EXCEPT !.pc = "exited",
                                   !.exit = "EXIT_SUCCESS",
                                   !.printed = Append(@, "envelope"),
                                   !.buffer = Erase(buffer, DLIS_VRL_SIZE)]
    /\ UNCHANGED <<file, tells, residuals, fs, at, ext, origin, objects, rx,
                   installed, loc, fo, dst>>

NextCli ==
    \/ \E args \in {1, 2, 3}, openable \in BOOLEAN : CliStart(args, openable)
    \/ CliSul
    \/ CliLabel
    \/ CliVrl

SpecCli == InitCli /\ [][NextCli]_vars

\* ---------------------------------------------------------------- claims

\* what the file holds at the segments stream::at has read: the k-th
\* segment's header is the four octets before its body
NumSegsRead == Len(at.bodies)
SegAttrsAt(k) == file[at.bodies[k].from - 1]
SegTypeAt(k) == file[at.bodies[k].from]
SegLenAt(k) == 256 * file[at.bodies[k].from - 3] + file[at.bodies[k].from - 2]
SegBodyAt(k) ==
    SubSeq(file, at.bodies[k].from + 1, at.bodies[k].from + SegLenAt(k) - 4)
BitOf(byte, n) == (byte \div n) % 2

Returned == at.pc = "ret"
Threw == at.pc = "throw"

\* C1: the record at(i) returns has the type octet of the first segment
\* header read for it.
C1_TypeOfFirstSegment == Returned => at.rec.type = SegTypeAt(1)

\* C2: the record at(i) returns is consistent exactly if all its segments
\* report one type, the first has no predecessor, the last no successor
\* and the segments between them have both.
ChainWellFormed ==
    /\ \A k \in 1..NumSegsRead : SegTypeAt(k) = SegTypeAt(1)
    /\ \A k \in 1..NumSegsRead :
          /\ BitOf(SegAttrsAt(k), 64) = (IF k = 1 THEN 0 ELSE 1)
          /\ BitOf(SegAttrsAt(k), 32) = (IF k = NumSegsRead THEN 0 ELSE 1)

C2_ConsistentIffChain == Returned => (at.rec.consistent <=> ChainWellFormed)

\* C3: the attributes of the record at(i) returns are the EXPLICIT_FORMAT
\* and ENCRYPTED bits of the first segment's attribute octet and nothing
\* else, whatever the later segments carry.
C3_AttributesOfFirstSegment ==
    Returned =>
        at.rec.attributes = 128 * BitOf(SegAttrsAt(1), 128)
                              + 16 * BitOf(SegAttrsAt(1), 16)

\* C3 witness: a record of two segments is returned, its first segment
\* carries bits other than the two kept and its second segment carries the
\* two kept bits, which the record does not have.
C3_Witness ==
    /\ Returned
    /\ NumSegsRead = 2
    /\ SegAttrsAt(1) % 16 # 0
    /\ SegAttrsAt(2) = 144
    /\ at.rec.attributes = 0

\* the bodies of the first k segments read, one after the other
RECURSIVE ConcatBodies(_)
ConcatBodies(k) == IF k = 0 THEN <<>> ELSE ConcatBodies(k - 1) \o SegBodyAt(k)

RECURSIVE SumOfSegLens(_)
SumOfSegLens(k) == IF k = 0 THEN 0 ELSE SumOfSegLens(k - 1) + SegLenAt(k)

\* the returned record is made of the segments from tell[i] to the first
\* one without successor, which lie in file order with nothing between them
\* but the visible record headers decoded, and its data is their bodies
C4_Segments ==
    Returned =>
        /\ NumSegsRead >= 1
        /\ residuals[at.i + 1] > 0 => at.bodies[1].from = tells[at.i + 1] + 4
        /\ \A k \in 1..NumSegsRead :
              BitOf(SegAttrsAt(k), 32) = (IF k = NumSegsRead THEN 0 ELSE 1)
        /\ \A k \in 1..(NumSegsRead - 1) :
              at.bodies[k + 1].from >= at.bodies[k].from + SegLenAt(k)
        /\ fs.pos = at.bodies[NumSegsRead].from + SegLenAt(NumSegsRead) - 4
        /\ fs.pos - tells[at.i + 1] =
              SumOfSegLens(NumSegsRead) + 4 * Len(at.vrls)
        /\ (\A k \in 1..NumSegsRead : SegAttrsAt(k) % 8 = 0)
              => at.rec.data = ConcatBodies(NumSegsRead)

\* with nothing left of the visible record, the next four octets are taken
\* as a visible record header: none of them goes to the data, and remaining
\* becomes the header's length less four
C4_VrlConsumed ==
    (at.pc = "vrl" /\ at.remaining = 0 /\ fs.pos + 4 <= Len(file)) =>
        /\ at'.pc \in {"lrsh", "vrl"}
        /\ at'.data = at.data
        /\ fs'.pos = fs.pos + 4
        /\ at'.remaining = 256 * file[fs.pos + 1] + file[fs.pos + 2] - 4

Prefix(d, n) == [j \in 1..n |-> d[j]]
Shortened(d, n) == Prefix(d, IF Len(d) >= n THEN Len(d) - n ELSE 0)

\* the segment whose body is about to be read: its attribute octet and the
\* payload with its body appended
BodyAttrs == file[fs.pos - 1]
BodyLen == 256 * file[fs.pos - 3] + file[fs.pos - 2] - 4
Appended == at.data \o SubSeq(file, fs.pos + 1, fs.pos + BodyLen)
BodyRead ==
    /\ at.pc = "body"
    /\ \/ at'.pc \in {"lrsh", "vrl", "ret"}
       \/ at'.pc = "throw" /\ at'.err = "non_contiguous"

C6_RemainingDiscipline ==
    /\ at.pc = "body" => at.remaining >= 0
    /\ at.pc = "vrl" => at.remaining = 0
    /\ at.err = "vrl_mismatch" => Threw

\* C7: where entry i has a successor, at(i) returns only with the cursor
\* at tell[i + 1] and fails as non-contiguous otherwise; the last entry is
\* not checked.
C7_Contiguous ==
    /\ (Returned /\ at.i + 1 < Len(tells)) => fs.pos = tells[at.i + 2]
    /\ (Threw /\ at.err = "non_contiguous") =>
          /\ at.i + 1 < Len(tells)
          /\ fs.pos # tells[at.i + 2]
          /\ BitOf(SegAttrsAt(NumSegsRead), 32) = 0

\* C7 witness: a record that has a successor entry is returned.
C7_Witness == Returned /\ at.i + 1 < Len(tells) /\ fs.pos = tells[at.i + 2]

\* a file as the data model wants it: the scanner reads it to its end, the
\* last visible record is used up, every visible record header is of
\* version 1, and the segments chain: no predecessor without a successor
\* before it, no successor at the end, one type and one pair of EXPLICIT
\* and ENCRYPTED flags along a chain
WellFormed(f) ==
    LET o == IndexRecords(f, 0)
        n == Len(o.segs)
    IN  /\ o.err = "ok"
        /\ o.rest = 0
        /\ \A k \in 1..Len(o.vrls) : o.vrls[k].version = 1 /\ ~o.vrls[k].err
        /\ \A k \in 1..n :
              /\ BitOf(o.segs[k].attrs, 64) =
                    (IF k = 1 THEN 0 ELSE BitOf(o.segs[k - 1].attrs, 32))
              /\ k = n => BitOf(o.segs[k].attrs, 32) = 0
              /\ (k < n /\ BitOf(o.segs[k].attrs, 32) = 1) =>
                    /\ o.segs[k].type = o.segs[k + 1].type
                    /\ BitOf(o.segs[k].attrs, 128) = BitOf(o.segs[k + 1].attrs, 128)
                    /\ BitOf(o.segs[k].attrs, 16) = BitOf(o.segs[k + 1].attrs, 16)

\* C8: on a well-formed file under the index the scanner made of it,
\* at(i) returns a record for every 0 <= i < len() (on a stream no read
\* has failed on).
C8_EveryEntryReadable ==
    (origin = "indexer" /\ WellFormed(file) /\ at.i < Len(tells) /\ ~fs.fail)
        => ~Threw

\* the version octets of the visible record headers at(i) has decoded
VrlVersionsRead == {file[at.vrls[k] + 4] : k \in 1..Len(at.vrls)}

C10_ExtractNotEncrypted ==
    ext.status = "ok" =>
        \A k \in 1..Len(ext.recs) : BitOf(ext.recs[k].attributes, 16) = 0

\* C11: parse_objects runs the object-set parser on exactly the records of
\* the batch that have EXPLICIT_FORMAT set and ENCRYPTED clear, and the
\* object sets come in the order of their records.
C11_ParsesExplicitClear ==
    objects.status = "ok" =>
        LET parsed == objects.parsed
        IN  /\ \A j \in 1..Len(parsed) :
                  /\ BitOf(ext.recs[parsed[j].of].attributes, 128) = 1
                  /\ BitOf(ext.recs[parsed[j].of].attributes, 16) = 0
            /\ \A k \in 1..Len(ext.recs) :
                  (BitOf(ext.recs[k].attributes, 128) = 1
                      /\ BitOf(ext.recs[k].attributes, 16) = 0)
                  => \E j \in 1..Len(parsed) : parsed[j].of = k
            /\ \A j \in 1..(Len(parsed) - 1) : parsed[j].of < parsed[j + 1].of

\* a call of reindex has the outcome its arguments ask for: it throws
\* exactly if tells is empty, residuals is empty or the sizes differ
C12_Rejected ==
    rx.status # "none" =>
        (rx.status = "invalid_argument"
            <=> (Len(rx.tells) = 0 \/ Len(rx.residuals) = 0
                    \/ Len(rx.tells) # Len(rx.residuals)))

\* a call of reindex that throws leaves the stored index as it was
C12_Unchanged ==
    rx'.status = "invalid_argument" => (tells' = tells /\ residuals' = residuals)

\* C12: reindex fails with invalid-argument when tells is empty, when
\* residuals is empty or when their sizes differ, and on each of these
\* failures the stored tells and residuals stay as they were.
C12_ReindexValidates == [](C12_Rejected) /\ [][C12_Unchanged]_vars

\* C12 witness: reindex has thrown on two non-empty vectors of different
\* sizes, and the index installed before is still in place.
C12_Witness ==
    /\ rx.status = "invalid_argument"
    /\ Len(rx.tells) = 1
    /\ Len(rx.residuals) = 2
    /\ tells = <<4, 14>>
    /\ residuals = <<6, 16>>

\* C13: reindex installs no index that holds a negative tell.
C13_TellsNonNegative ==
    /\ rx.status = "ok" => \A k \in 1..Len(rx.tells) : rx.tells[k] >= 0
    /\ \A k \in 1..Len(tells) : tells[k] >= 0

\* the index in place is the one the last returning reindex was given
C14_Snapshot == tells = installed.tells /\ residuals = installed.residuals

\* a call of at(i) on a stream no read has failed on, for an entry of the
\* index with a tell that is no negative number, seeks to that tell and
\* starts with that residual
C14_Entered ==
    (AtDone(at) /\ at' # at /\ at'.pc # "idle") =>
        LET i == at'.i
        IN  IF i < 0 \/ i >= Len(installed.tells)
            THEN at'.pc = "throw" /\ at'.err = "out_of_range"
            ELSE IF fs.fail \/ installed.tells[i + 1] < 0
            THEN at'.pc = "throw" /\ at'.err = "ios_failure"
            ELSE /\ at'.pc \in {"lrsh", "vrl"}
                 /\ fs'.pos = installed.tells[i + 1]
                 /\ at'.remaining = installed.residuals[i + 1]
                 /\ at'.data = <<>>

\* C14: at(i) seeks to tell[i] and starts with remaining = residual[i] of
\* the index installed last, whatever calls went before (the stream must
\* not have failed on a read); an entry that starts behind skipped octets
\* is read like any other.
C14_ReadsSnapshot == [](C14_Snapshot) /\ [][C14_Entered]_vars

\* C14 witness: under the caller's index (4, 14), which skips the visible
\* record header at 10, the second record is returned: one segment whose
\* body starts at 18.
C14_Witness ==
    /\ Returned
    /\ origin = "caller"
    /\ tells = <<4, 14>>
    /\ at.i = 1
    /\ NumSegsRead = 1
    /\ at.bodies[1].from = 18
    /\ file[13] = 255

\* the needle lies at the octets p .. p + Len(needle) - 1 of the file, all
\* of them before the octet `last`
Lies(needle, p, last) ==
    /\ p + Len(needle) <= last
    /\ \A j \in 1..Len(needle) : file[p + j] = needle[j]

C16_FindVrl ==
    loc.op = "findvrl" =>
        LET size == Len(file)
            last == loc.from + (IF size - loc.from < 200
                                THEN size - loc.from ELSE 200)
            Hit(p) == Lies(<<255, 1>>, p, last)
        IN  /\ loc.status \in {"ok", "not_found", "runtime_error",
                               "out_of_range"}
            /\ loc.status = "out_of_range" <=>
                    (loc.from < 0 \/ loc.from > size)
            /\ loc.status = "not_found" <=>
                    /\ 0 <= loc.from /\ loc.from <= size
                    /\ \A p \in loc.from..last : ~Hit(p)
            /\ loc.status = "runtime_error" <=>
                    /\ 0 <= loc.from /\ loc.from <= size
                    /\ \E p \in loc.from..(loc.from + 1) : Hit(p)
            /\ loc.status = "ok" =>
                /\ loc.offset >= loc.from
                /\ Hit(loc.offset + 2)
                /\ \A q \in loc.from..(loc.offset + 1) : ~Hit(q)

\* C16 witness: a search from 4 finds 0xFF 0x01 at 6 and returns 4.
C16_Witness ==
    /\ loc.op = "findvrl"
    /\ loc.from = 4
    /\ loc.status = "ok"
    /\ loc.offset = 4
    /\ file[7] = 255

C19_EveryPassAdvances ==
    [][(fo.pc = "loop" /\ fo'.pc = "loop" /\ fo'.passes = fo.passes + 1) =>
            /\ fo'.alloc_size >= 1
            /\ <<fo'.begin, fo'.count>> # <<fo.begin, fo.count>>]_vars

\* C18: the program exits with status 0 when the label and the first
\* visible record header are found, parsed and printed, and with status 1
\* on every failure, a file that cannot be opened or that ends before the
\* octets the program reads among them.
C18_ExitStatus ==
    cli.pc = "exited" =>
        /\ cli.exit \in {"EXIT_SUCCESS", "EXIT_FAILURE"}
        /\ cli.exit = "EXIT_SUCCESS" <=> cli.printed = <<"sul", "envelope">>

\* C20: at(i) terminates whatever the length fields hold, a segment
\* length of 0 or less than 4 included, and never appends a negative number
\* of body octets: at the point where rec.data is grown by len, len is not
\* negative.
C20_BodyNotNegative ==
    at.pc = "body" => at.len >= 0

\* C21: the index is changed only by reindex: a step that changes tells or
\* residuals is a call of reindex that returned, and leaves them as the
\* call was given them; at(i), at(i, rec), get and extract, returning or
\* throwing, leave them as they were.
C21_IndexFrame ==
    [][(tells' # tells \/ residuals' # residuals) =>
            /\ rx'.status = "ok"
            /\ rx'.tells = tells'
            /\ rx'.residuals = residuals']_vars

\* C21 witness: at(i, rec) has thrown on a record that held the payload of
\* a call before it, with the index of the scanner in place.
C21_Witness ==
    /\ Threw
    /\ at.start > 0
    /\ origin = "indexer"
    /\ tells = <<4, 14>>
    /\ residuals = <<16, 6>>

\* C22: the record a call of at returns holds the payload of record i,
\* what at(i) returns on a fresh record, whatever the record held before.
C22_FreshPayload ==
    Returned =>
        at.rec.data = AtRun([pos |-> 0, fail |-> FALSE], at.i, 0).l.rec.data

\* C23: what is chopped off for the trailing length, the checksum and the
\* padding of a segment is taken from the body of that segment: the
\* payload is not shorter after a segment is processed than it was before
\* the body was appended, and the pad count is read from the payload.
C23_ChopWithinSegment ==
    [][(at.pc = "body" /\ Len(at'.bodies) = Len(at.bodies) + 1) =>
            /\ Len(at'.data) >= Len(at.data)
            /\ ~at'.oob]_vars

====
